---- MODULE Spec2Model ----
(***************************************************************************)
(* The Bloom kernel guardian (skills/bloom-kernel-guardian/scripts/        *)
(* guardian.py) as a state machine: main() runs find_sql_migrations,       *)
(* apply_migrations, require_immutable_table (events, receipts), the three *)
(* seeding inserts, prove_immutable_by_writes (events, receipts) and       *)
(* scan_for_ghost_state.  Text is modelled as sequences of one-character   *)
(* strings so that substring tests, lower-casing, the regular expression   *)
(* and the 300 character window are computed, not assumed.                 *)
(***************************************************************************)
EXTENDS Integers, Sequences, FiniteSets, TLC

\* ------------------------------------------------------------------ bounds

\* Largest numbered .sql file a candidate migrations directory may hold.
MaxFiles == 2
\* Largest number of triggers registered on one protected table.
MaxTriggers == 2
\* Largest value of int(time.time()) the seeder may observe.
MaxNow == 1
\* How far on either side of the window edge the scanned texts place a token.
Slack == 1

\* ------------------------------------------------------- program constants

\* Characters of context the scanner takes before and after a match.
Window == 300
\* Findings listed in the scanner's failure report.
MaxListed == 25

\* -------------------------------------------------------------------- text

Letters == {"a","b","c","d","e","f","g","h","i","j","k","l","m","n","o","p","q","r","s","t","u","v","w","x","y","z"}
Digits == {"0","1","2","3","4","5","6","7","8","9"}

\* The lower-case letter of every upper-case letter.
LowerOf ==
     "A" :> "a" @@ "B" :> "b" @@ "C" :> "c" @@ "D" :> "d" @@ "E" :> "e" @@ "F" :> "f" @@ "G" :>
     "g" @@ "H" :> "h" @@ "I" :> "i" @@ "J" :> "j" @@ "K" :> "k" @@ "L" :> "l" @@ "M" :> "m" @@
     "N" :> "n" @@ "O" :> "o" @@ "P" :> "p" @@ "Q" :> "q" @@ "R" :> "r" @@ "S" :> "s" @@ "T" :>
     "t" @@ "U" :> "u" @@ "V" :> "v" @@ "W" :> "w" @@ "X" :> "x" @@ "Y" :> "y" @@ "Z" :> "z"

\* str.lower() on one character.
ToLower(c) == IF c \in DOMAIN LowerOf THEN LowerOf[c] ELSE c

\* str.lower()
Lower(s) == [i \in DOMAIN s |-> ToLower(s[i])] \o <<>>

\* Python's `needle in haystack` on strings.
Contains(haystack, needle) ==
  \E i \in 1..(Len(haystack) - Len(needle) + 1) :
    SubSeq(haystack, i, i + Len(needle) - 1) = needle

\* sep.join(parts)
RECURSIVE Join(_, _)
Join(sep, parts) ==
  IF parts = <<>> THEN <<>>
  ELSE IF Len(parts) = 1 THEN parts[1]
  ELSE parts[1] \o sep \o Join(sep, Tail(parts))

\* n filler characters that belong to no keyword, token or word.
Pad(n) == [i \in 1..n |-> "-"]

\* ------------------------------------------------------------------- state

VARIABLES
  pc,          \* the statement of main() that runs next, or Passed / Failed
  out,         \* the lines printed so far (stdout and stderr), in order
  exitCode,    \* the process's exit code, -1 while it runs
  fs,          \* the candidate migration directories on disk
  sql_files,   \* main's sql_files
  triggers,    \* sqlite_master: the trigger texts registered on each table
  rows,        \* the rows of users, agents, events, receipts
  ids,         \* main's user_id, agent_id, now, event_id, receipt_id
  attempts,    \* the forbidden statements executed so far, with their outcome
  kernelFiles, \* the candidate kernel.ts files on disk
  kernel_path, \* the path scan_for_ghost_state resolved
  matches,     \* every regular-expression match the scanner iterated over
  hits         \* scan_for_ghost_state's hits

vars == <<pc, out, exitCode, fs, sql_files, triggers, rows, ids, attempts,
          kernelFiles, kernel_path, matches, hits>>

\* One printed line.  prefix is the bracketed tag the line starts with ("" when
\* it has none, "Traceback" for an uncaught exception's report).
Line(prefix, check, table, op, detail) ==
  [prefix |-> prefix, check |-> check, table |-> table, op |-> op, detail |-> detail]

Banner == Line("", "banner", "", "", <<>>)

\* Variant: the process ends reporting success.
Die_ExitZero(line) ==
  /\ out' = Append(out, line)
  /\ exitCode' = 0
  /\ pc' = "Failed"

\* The process ends through SystemExit(message) or an uncaught exception: the
\* message goes to stderr and the exit code is 1.
Die(line) ==
  /\ out' = Append(out, line)
  /\ exitCode' = 1
  /\ pc' = "Failed"

\* ------------------------------------------------------ find_sql_migrations

Candidates == <<"migrations", "db/migrations", "src/db/migrations">>

SqlFile(i) == [base |-> i, ext |-> "sql"]
Readme == [base |-> 0, ext |-> "txt"]

\* glob.glob(str(candidate / "*.sql"))
Glob(fsys, dir) ==
  {[dir |-> dir, file |-> f] : f \in {g \in fsys[dir].files : g.ext = "sql"}}

\* sorted(paths) of one directory: ascending file name.
RECURSIVE Sorted(_)
Sorted(paths) ==
  IF paths = {} THEN <<>>
  ELSE LET least == CHOOSE p \in paths : \A q \in paths : p.file.base <= q.file.base
       IN <<least>> \o Sorted(paths \ {least})

\* Variant: the loop stops at the first candidate that yields a file.
RECURSIVE CollectFrom_FirstOnly(_, _)
CollectFrom_FirstOnly(fsys, k) ==
  IF k > Len(Candidates) THEN <<>>
  ELSE IF fsys[Candidates[k]].exists /\ Glob(fsys, Candidates[k]) # {}
       THEN Sorted(Glob(fsys, Candidates[k]))
       ELSE CollectFrom_FirstOnly(fsys, k + 1)

\* The loop of find_sql_migrations from candidate k on.
RECURSIVE CollectFrom(_, _)
CollectFrom(fsys, k) ==
  IF k > Len(Candidates) THEN <<>>
  ELSE (IF fsys[Candidates[k]].exists
        THEN Sorted(Glob(fsys, Candidates[k]))
        ELSE <<>>) \o CollectFrom(fsys, k + 1)

find_sql_migrations(fsys) == CollectFrom(fsys, 1)

\* main: sql_files = find_sql_migrations()
MainFindSqlMigrations ==
  /\ pc = "find_sql_migrations"
  /\ LET found == find_sql_migrations(fs)
     IN IF found = <<>>
        THEN /\ Die(Line("", "find_sql_migrations", "", "", <<>>))
             /\ UNCHANGED sql_files
        ELSE /\ sql_files' = found
             /\ pc' = "apply_migrations"
             /\ UNCHANGED <<out, exitCode>>
  /\ UNCHANGED <<fs, triggers, rows, ids, attempts, kernelFiles, kernel_path, matches, hits>>

\* -------------------------------------------------- require_immutable_table

\* A NULL sql column of sqlite_master.
NullSql == <<"NULL">>

kw_update == <<"u","p","d","a","t","e">>
kw_delete == <<"d","e","l","e","t","e">>
kw_raise == <<"r","a","i","s","e">>
kw_abort == <<"a","b","o","r","t">>

\* trigger[1] or ""
OrEmpty(sql) == IF sql = NullSql THEN <<>> ELSE sql

\* Variant: the blob is searched without lower-casing it.
require_immutable_table_NoLower(trigs) ==
  LET sql_blob == Join(<<"\n">>, [k \in DOMAIN trigs |-> OrEmpty(trigs[k])])
      has_update == Contains(sql_blob, kw_update)
      has_delete == Contains(sql_blob, kw_delete)
      has_abort == Contains(sql_blob, kw_raise) \/ Contains(sql_blob, kw_abort)
  IN has_update /\ has_delete /\ has_abort

\* require_immutable_table on the rows fetched from sqlite_master: TRUE when
\* it prints its "[OK]" line, FALSE when it raises SystemExit.
require_immutable_table(trigs) ==
  LET sql_blob == Lower(Join(<<"\n">>, [k \in DOMAIN trigs |-> OrEmpty(trigs[k])]))
      has_update == Contains(sql_blob, kw_update)
      has_delete == Contains(sql_blob, kw_delete)
      has_abort == Contains(sql_blob, kw_raise) \/ Contains(sql_blob, kw_abort)
  IN has_update /\ has_delete /\ has_abort

\* Variant: the failure is printed and main goes on.
RequireImmutableTableStep_Continues(table, next) ==
  /\ out' = Append(out, IF require_immutable_table(triggers[table])
                        THEN Line("[OK]", "appears DB-immutable", table, "", <<>>)
                        ELSE Line("[FAIL]", "is not DB-immutable", table, "", <<>>))
  /\ pc' = next
  /\ UNCHANGED <<exitCode, fs, sql_files, triggers, rows, ids, attempts, kernelFiles, kernel_path, matches, hits>>

\* main: require_immutable_table(conn, table), then the statement `next`.
RequireImmutableTableStep(table, next) ==
  /\ IF require_immutable_table(triggers[table])
     THEN /\ out' = Append(out, Line("[OK]", "appears DB-immutable", table, "", <<>>))
          /\ pc' = next
          /\ UNCHANGED exitCode
     ELSE Die(Line("[FAIL]", "is not DB-immutable", table, "", <<>>))
  /\ UNCHANGED <<fs, sql_files, triggers, rows, ids, attempts, kernelFiles, kernel_path, matches, hits>>

MainVerifyEvents ==
  /\ pc = "verify_events"
  /\ RequireImmutableTableStep("events", "verify_receipts")

MainVerifyReceipts ==
  /\ pc = "verify_receipts"
  /\ RequireImmutableTableStep("receipts", "seed_actor")

\* --------------------------------------------- the database and the disk

NoTriggers == [t \in {"events", "receipts"} |-> <<>>]
NoRows == [t \in {"users", "agents", "events", "receipts"} |-> {}]
NoIds == [now |-> 0, seeded |-> <<>>]
KernelCandidates == <<"kernel.ts", "src/kernel.ts", "src/kernel/kernel.ts">>
NoFile == <<"no file">>
NoKernel == [c \in {"kernel.ts", "src/kernel.ts", "src/kernel/kernel.ts"} |-> NoFile]

\* -------------------------------------------------------- apply_migrations

\* What the migrations may leave in sqlite_master for a protected table: an
\* update trigger and a delete trigger that abort, the update trigger alone,
\* or no trigger.
GoodTriggers ==
  << <<"B","E","F","O","R","E"," ","U","P","D","A","T","E"," ","r","a","i","s","e">>,
     <<"b","e","f","o","r","e"," ","d","e","l","e","t","e"," ","A","B","O","R","T">> >>
UpdateTriggerOnly ==
  << <<"B","E","F","O","R","E"," ","U","P","D","A","T","E"," ","r","a","i","s","e">> >>
Schemas == [{"events", "receipts"} -> {GoodTriggers, UpdateTriggerOnly, <<>>}]

\* main: apply_migrations(conn, sql_files).  executescript either raises on
\* file k, or every file is applied and the schema is committed.
MainApplyMigrations ==
  /\ pc = "apply_migrations"
  /\ \/ \E k \in DOMAIN sql_files :
          /\ Die(Line("", "apply_migrations", "", "", sql_files[k]))
          /\ UNCHANGED triggers
     \/ /\ triggers' \in Schemas
        /\ pc' = "verify_events"
        /\ UNCHANGED <<out, exitCode>>
  /\ UNCHANGED <<fs, sql_files, rows, ids, attempts, kernelFiles, kernel_path, matches, hits>>

\* ------------------------------------- seed_actor, insert_event, insert_receipt

\* An exception leaves the `with sqlite3.connect(...) as conn` block: the open
\* transaction is rolled back and the process ends.
DieInTransaction(line) ==
  /\ Die(line)
  /\ rows' = NoRows

\* main: user_id, agent_id, now = seed_actor(conn)
seed_actor ==
  /\ pc = "seed_actor"
  /\ \E now \in 1..MaxNow :
       \/ /\ DieInTransaction(Line("Traceback", "seed_actor", "users", "INSERT", <<>>))
          /\ UNCHANGED ids
       \/ /\ DieInTransaction(Line("Traceback", "seed_actor", "agents", "INSERT", <<>>))
          /\ UNCHANGED ids
       \/ /\ rows' = [rows EXCEPT !["users"] = @ \cup {<<"user_guardian", now>>},
                                  !["agents"] = @ \cup {<<"agent_guardian", now>>}]
          /\ ids' = [now |-> now, seeded |-> <<"user_id", "agent_id">>]
          /\ pc' = "insert_event"
          /\ UNCHANGED <<out, exitCode>>
  /\ UNCHANGED <<fs, sql_files, triggers, attempts, kernelFiles, kernel_path, matches, hits>>

\* main: event_id = insert_event(conn, user_id, agent_id, now)
insert_event ==
  /\ pc = "insert_event"
  /\ \/ /\ DieInTransaction(Line("Traceback", "insert_event", "events", "INSERT", <<>>))
        /\ UNCHANGED ids
     \/ /\ rows' = [rows EXCEPT !["events"] = @ \cup {<<"evt_guardian", ids.now>>}]
        /\ ids' = [ids EXCEPT !.seeded = Append(@, "event_id")]
        /\ pc' = "insert_receipt"
        /\ UNCHANGED <<out, exitCode>>
  /\ UNCHANGED <<fs, sql_files, triggers, attempts, kernelFiles, kernel_path, matches, hits>>

\* main: receipt_id = insert_receipt(conn, user_id, agent_id, event_id, now)
insert_receipt ==
  /\ pc = "insert_receipt"
  /\ \/ /\ DieInTransaction(Line("Traceback", "insert_receipt", "receipts", "INSERT", <<>>))
        /\ UNCHANGED ids
     \/ /\ rows' = [rows EXCEPT !["receipts"] = @ \cup {<<"rcpt_guardian", ids.now>>}]
        /\ ids' = [ids EXCEPT !.seeded = Append(@, "receipt_id")]
        /\ pc' = "prove_events_update"
        /\ UNCHANGED <<out, exitCode>>
  /\ UNCHANGED <<fs, sql_files, triggers, attempts, kernelFiles, kernel_path, matches, hits>>

\* ------------------------------------ assert_blocked, prove_immutable_by_writes

\* How the engine may answer a forbidden statement: it executes ("ok"); a
\* trigger's RAISE(ABORT) rejects it (sqlite3.IntegrityError); a foreign-key
\* constraint rejects it (sqlite3.IntegrityError), which needs a row referencing
\* the one deleted; or it fails to run (sqlite3.OperationalError).  All three
\* errors are sqlite3.DatabaseError.
Outcomes(table, op) ==
  {"ok", "trigger_abort", "operational"}
    \cup (IF op = "DELETE" /\ table = "events" /\ rows["receipts"] # {} THEN {"foreign_key"} ELSE {})

Row(table) == <<IF table = "events" THEN "evt_guardian" ELSE "rcpt_guardian", ids.now>>

\* The rows after the statement executed: an update to self changes nothing.
Executed(table, op) ==
  IF op = "DELETE" THEN [rows EXCEPT ![table] = @ \ {Row(table)}] ELSE rows

\* Variant: only the trigger's rejection is caught.
assert_blocked_OnlyTriggerAbort(table, op, next) ==
  \E outcome \in Outcomes(table, op) :
    /\ attempts' = Append(attempts, [table |-> table, op |-> op, outcome |-> outcome])
    /\ IF outcome = "trigger_abort"
       THEN /\ out' = Append(out, Line("[OK]", "blocked as expected", table, op, <<>>))
            /\ pc' = next
            /\ UNCHANGED <<exitCode, rows>>
       ELSE DieInTransaction(Line("[FAIL]", "was allowed", table, op, <<>>))

\* Variant: the statement's success is reported as blocked too.
assert_blocked_NeverFails(table, op, next) ==
  \E outcome \in Outcomes(table, op) :
    /\ attempts' = Append(attempts, [table |-> table, op |-> op, outcome |-> outcome])
    /\ out' = Append(out, Line("[OK]", "blocked as expected", table, op, <<>>))
    /\ pc' = next
    /\ rows' = IF outcome = "ok" THEN Executed(table, op) ELSE rows
    /\ UNCHANGED exitCode

\* assert_blocked(conn, sql, params, label), label being "<op> on <table>".
assert_blocked(table, op, next) ==
  \E outcome \in Outcomes(table, op) :
    /\ attempts' = Append(attempts, [table |-> table, op |-> op, outcome |-> outcome])
    /\ IF outcome # "ok"
       THEN /\ out' = Append(out, Line("[OK]", "blocked as expected", table, op, <<>>))
            /\ pc' = next
            /\ UNCHANGED <<exitCode, rows>>
       ELSE DieInTransaction(Line("[FAIL]", "was allowed", table, op, <<>>))

\* prove_immutable_by_writes: the update to self.
ProveUpdate(table, next) ==
  /\ assert_blocked(table, "UPDATE", next)
  /\ UNCHANGED <<fs, sql_files, triggers, ids, kernelFiles, kernel_path, matches, hits>>

\* prove_immutable_by_writes: the delete by primary key.
ProveDelete(table, next) ==
  /\ assert_blocked(table, "DELETE", next)
  /\ UNCHANGED <<fs, sql_files, triggers, ids, kernelFiles, kernel_path, matches, hits>>

\* main: prove_immutable_by_writes(conn, "events", ...)
ProveEventsUpdate == pc = "prove_events_update" /\ ProveUpdate("events", "prove_events_delete")
ProveEventsDelete == pc = "prove_events_delete" /\ ProveDelete("events", "prove_receipts_update")
\* main: prove_immutable_by_writes(conn, "receipts", ...)
ProveReceiptsUpdate == pc = "prove_receipts_update" /\ ProveUpdate("receipts", "prove_receipts_delete")
ProveReceiptsDelete == pc = "prove_receipts_delete" /\ ProveDelete("receipts", "scan_for_ghost_state")


\* ----------------------------------------------------- scan_for_ghost_state

suspicious_tables ==
  << <<"b","u","d","g","e","t","s">>,
     <<"p","o","l","i","c","i","e","s">>,
     <<"a","g","e","n","t","s">>,
     <<"u","s","e","r","s">>,
     <<"a","g","e","n","t","_","t","o","k","e","n","s">> >>

AuditTokens ==
  << <<"e","v","e","n","t">>, <<"r","e","c","e","i","p","t">>, <<"a","p","p","e","n","d">> >>

kw_insert == <<"i","n","s","e","r","t">>
kw_into == <<"i","n","t","o">>
kw_from == <<"f","r","o","m">>

\* The regular expression's \s+ as an element of a pattern.
Spaces == <<"\\s+">>

\* A character \s matches.
IsSpace(c) == c \in {" ", "\t", "\n", "\r", "\f"}

\* A character \w matches.
IsWordChar(c) ==
  \/ ToLower(c) \in Letters
  \/ c \in Digits
  \/ c = "_"

\* The three alternatives of the pattern compiled for `table`, in order.
Alternatives(table) ==
  << <<kw_insert, Spaces, kw_into, Spaces, table>>,
     <<kw_update, Spaces, table>>,
     <<kw_delete, Spaces, kw_from, Spaces, table>> >>

\* A literal matched at index i: the index after it, or 0.  The pattern's
\* literals are lower case and `text` is the scanned text in lower case, which
\* is how re.IGNORECASE compares them.
MatchLiteral(text, i, lit) ==
  IF /\ i + Len(lit) - 1 <= Len(text)
     /\ \A j \in 1..Len(lit) : text[i + j - 1] = lit[j]
  THEN i + Len(lit)
  ELSE 0

\* \s+ matched at index i (greedy; what follows it in the pattern is never
\* white space, so only the longest run can match): the index after it, or 0.
MatchSpaces(text, i) ==
  IF i > Len(text) \/ ~IsSpace(text[i])
  THEN 0
  ELSE CHOOSE j \in (i + 1)..(Len(text) + 1) :
         /\ j = Len(text) + 1 \/ ~IsSpace(text[j])
         /\ \A k \in i..(j - 1) : IsSpace(text[k])

\* The elements of one alternative matched in sequence from index i.
RECURSIVE MatchParts(_, _, _)
MatchParts(text, i, parts) ==
  IF parts = <<>> THEN i
  ELSE LET j == IF Head(parts) = Spaces
                THEN MatchSpaces(text, i)
                ELSE MatchLiteral(text, i, Head(parts))
       IN IF j = 0 THEN 0 ELSE MatchParts(text, j, Tail(parts))

\* The first alternative from the a-th on that matches at index i: the index
\* after the match, or 0.
RECURSIVE MatchAlternatives(_, _, _, _)
MatchAlternatives(text, alts, a, i) ==
  IF a > Len(alts) THEN 0
  ELSE LET e == MatchParts(text, i, alts[a])
       IN IF e # 0 THEN e ELSE MatchAlternatives(text, alts, a + 1, i)

\* Variant: the pattern wrapped in \b ... \b.
MatchAt_WordBoundary(text, table, i) ==
  LET e == MatchAlternatives(text, Alternatives(table), 1, i)
  IN IF /\ e # 0
        /\ (i = 1 \/ ~IsWordChar(text[i - 1]))
        /\ (e > Len(text) \/ ~IsWordChar(text[e]))
     THEN e
     ELSE 0

\* The pattern matched at index i: the index after the match, or 0.
MatchAt(text, table, i) == MatchAlternatives(text, Alternatives(table), 1, i)

\* pat.finditer on the lower-cased text from index `from`: the leftmost match,
\* then the matches after its end.  start and end are Python's match.start()
\* and match.end().
RECURSIVE FindIterFrom(_, _, _)
FindIterFrom(text, table, from) ==
  LET starts == {i \in from..Len(text) : MatchAt(text, table, i) # 0}
  IN IF starts = {} THEN <<>>
     ELSE LET s == CHOOSE i \in starts : \A k \in starts : i <= k
              e == MatchAt(text, table, s)
          IN <<[table |-> table, start |-> s - 1, end |-> e - 1]>>
               \o FindIterFrom(text, table, e)

Max(a, b) == IF a >= b THEN a ELSE b
Min(a, b) == IF a <= b THEN a ELSE b

\* Variant: the window opens at the match start.
NearAudit_AfterOnly(text, m) ==
  LET start == m.start
      end == Min(Len(text), m.end + Window)
      window == Lower(SubSeq(text, start + 1, end))
  IN \E t \in DOMAIN AuditTokens : Contains(window, AuditTokens[t])

\* The window around match m holds one of the audit tokens.
NearAudit(text, m) ==
  LET start == Max(0, m.start - Window)
      end == Min(Len(text), m.end + Window)
      window == Lower(SubSeq(text, start + 1, end))
  IN \E t \in DOMAIN AuditTokens : Contains(window, AuditTokens[t])

\* Every match, table by table in the order of suspicious_tables.
RECURSIVE AllMatches(_, _)
AllMatches(text, k) ==
  IF k > Len(suspicious_tables) THEN <<>>
  ELSE FindIterFrom(text, suspicious_tables[k], 1) \o AllMatches(text, k + 1)

\* (table, match.group(0), match.start())
Hit(text, m) == [table |-> m.table, op |-> SubSeq(text, m.start + 1, m.end), pos |-> m.start]

\* The hits of the scan loop over `found`, the matches in iteration order.
RECURSIVE HitsOf(_, _)
HitsOf(text, found) ==
  IF found = <<>> THEN <<>>
  ELSE (IF NearAudit(text, Head(found)) THEN <<>> ELSE <<Hit(text, Head(found))>>)
         \o HitsOf(text, Tail(found))

Exists(files, path) == files[path] # NoFile

\* Variant: the candidates tried in the reverse order.
ResolveKernelPath_LastWins(files) ==
  IF Exists(files, "src/kernel/kernel.ts") THEN "src/kernel/kernel.ts"
  ELSE IF Exists(files, "src/kernel.ts") THEN "src/kernel.ts"
  ELSE "kernel.ts"

\* kernel_path as scan_for_ghost_state resolves it.
ResolveKernelPath(files) ==
  IF Exists(files, "kernel.ts") THEN "kernel.ts"
  ELSE IF Exists(files, "src/kernel.ts") THEN "src/kernel.ts"
  ELSE IF Exists(files, "src/kernel/kernel.ts") THEN "src/kernel/kernel.ts"
  ELSE "kernel.ts"

\* The lines of the failure report: the header, then at most MaxListed findings.
Report(found) ==
  <<Line("[FAIL]", "ghost-state", "", "", <<>>)>>
    \o [k \in 1..Min(Len(found), MaxListed) |-> Line("", "finding", "", "", found[k])]

\* main: scan_for_ghost_state()
scan_for_ghost_state ==
  /\ pc = "scan_for_ghost_state"
  /\ LET path == ResolveKernelPath(kernelFiles)
     IN /\ kernel_path' = path
        /\ IF ~Exists(kernelFiles, path)
           THEN /\ out' = Append(out, Line("[WARN]", "ghost-state", "", "", <<>>))
                /\ pc' = "final_print"
                /\ UNCHANGED <<exitCode, matches, hits>>
           ELSE LET text == kernelFiles[path]
                    found == AllMatches(Lower(text), 1)
                    h == HitsOf(text, found)
                IN /\ matches' = found
                   /\ hits' = h
                   /\ IF h # <<>>
                      THEN /\ out' = (out \o Report(h)) \o <<Line("", "ghost-state", "", "", <<>>)>>
                           /\ exitCode' = 1
                           /\ pc' = "Failed"
                      ELSE /\ out' = Append(out, Line("[OK]", "ghost-state", "", "", <<>>))
                           /\ pc' = "final_print"
                           /\ UNCHANGED exitCode
  /\ UNCHANGED <<fs, sql_files, triggers, rows, ids, attempts, kernelFiles>>

\* Variant: the final line is not printed.
MainPassed_Silent ==
  /\ pc = "final_print"
  /\ exitCode' = 0
  /\ pc' = "Passed"
  /\ UNCHANGED <<out, fs, sql_files, triggers, rows, ids, attempts, kernelFiles, kernel_path, matches, hits>>

\* main: print("[OK] Guardian checks passed."), and the process ends with code 0.
MainPassed ==
  /\ pc = "final_print"
  /\ out' = Append(out, Line("[OK]", "guardian", "", "", <<>>))
  /\ exitCode' = 0
  /\ pc' = "Passed"
  /\ UNCHANGED <<fs, sql_files, triggers, rows, ids, attempts, kernelFiles, kernel_path, matches, hits>>

\* --------------------------------------------------------- initial states

\* A candidate directory: absent, or present holding some of the files.
DirStates(files) ==
  {[exists |-> FALSE, files |-> {}]} \cup {[exists |-> TRUE, files |-> F] : F \in SUBSET files}

AllFs ==
  [{"migrations", "db/migrations", "src/db/migrations"}
     -> DirStates({SqlFile(i) : i \in 1..MaxFiles} \cup {Readme})]

\* find_sql_migrations applied to every assignment of files to the candidates.
InitMigrations ==
  /\ pc = "find_sql_migrations"
  /\ out = <<Banner>>
  /\ exitCode = -1
  /\ fs \in AllFs
  /\ sql_files = <<>>
  /\ triggers = NoTriggers
  /\ rows = NoRows
  /\ ids = NoIds
  /\ attempts = <<>>
  /\ kernelFiles = NoKernel
  /\ kernel_path = "kernel.ts"
  /\ matches = <<>>
  /\ hits = <<>>

NextMigrations == MainFindSqlMigrations

SpecMigrations == InitMigrations /\ [][NextMigrations]_vars

\* Trigger texts: an update trigger and a delete trigger that raise or abort
\* (in either case of letters), a text naming both operations and no abort, two
\* texts that spell "update" only when run together, and a NULL text.
TriggerTexts ==
  { <<"B","E","F","O","R","E"," ","U","P","D","A","T","E"," ","r","a","i","s","e">>,
    <<"b","e","f","o","r","e"," ","d","e","l","e","t","e"," ","A","B","O","R","T">>,
    <<"u","p","d","a","t","e"," ","d","e","l","e","t","e">>,
    <<"u","p","d">>,
    <<"a","t","e"," ","d","e","l","e","t","e"," ","R","a","i","s","e">>,
    NullSql }

TriggerLists == UNION {[1..n -> TriggerTexts] : n \in 0..MaxTriggers}

\* require_immutable_table applied to every pair of trigger lists.
InitVerifier ==
  /\ pc = "verify_events"
  /\ out = <<Banner>>
  /\ exitCode = -1
  /\ fs = [d \in {"migrations", "db/migrations", "src/db/migrations"} |->
             [exists |-> d = "migrations", files |-> IF d = "migrations" THEN {SqlFile(1)} ELSE {}]]
  /\ sql_files = find_sql_migrations(fs)
  /\ triggers \in [{"events", "receipts"} -> TriggerLists]
  /\ rows = NoRows
  /\ ids = NoIds
  /\ attempts = <<>>
  /\ kernelFiles = NoKernel
  /\ kernel_path = "kernel.ts"
  /\ matches = <<>>
  /\ hits = <<>>

NextVerifier == MainVerifyEvents \/ MainVerifyReceipts

SpecVerifier == InitVerifier /\ [][NextVerifier]_vars

\* The disk the whole run is checked on: no migrations, a migrations directory,
\* a lower-priority one, or two of them.
RunFs ==
  {f \in AllFs :
     /\ \A d \in DOMAIN f : Readme \notin f[d].files /\ f[d].exists = (f[d].files # {})
     /\ f["db/migrations"].files = {}
     /\ f["migrations"].files \in {{}, {SqlFile(1)}}
     /\ f["src/db/migrations"].files \in {{}, {SqlFile(1)}}}

\* A kernel source whose one mutation is followed by an audit emission, and one
\* whose mutation is not.
LoggedKernel ==
  <<"u","p","d","a","t","e"," ","u","s","e","r","s",";"," ","e","m","i","t","E","v","e","n","t">>
GhostKernel == <<"u","p","d","a","t","e"," ","u","s","e","r","s",";">>
RunKernels ==
  [{"kernel.ts", "src/kernel.ts", "src/kernel/kernel.ts"} -> {NoFile, LoggedKernel, GhostKernel}]

\* The state after `print("== Bloom Kernel Guardian ==")`.
Init ==
  /\ pc = "find_sql_migrations"
  /\ out = <<Banner>>
  /\ exitCode = -1
  /\ fs \in RunFs
  /\ sql_files = <<>>
  /\ triggers = NoTriggers
  /\ rows = NoRows
  /\ ids = NoIds
  /\ attempts = <<>>
  /\ kernelFiles \in RunKernels
  /\ kernel_path = "kernel.ts"
  /\ matches = <<>>
  /\ hits = <<>>

Next ==
  \/ MainFindSqlMigrations
  \/ MainApplyMigrations
  \/ MainVerifyEvents
  \/ MainVerifyReceipts
  \/ seed_actor
  \/ insert_event
  \/ insert_receipt
  \/ ProveEventsUpdate
  \/ ProveEventsDelete
  \/ ProveReceiptsUpdate
  \/ ProveReceiptsDelete
  \/ scan_for_ghost_state
  \/ MainPassed

Spec == Init /\ [][Next]_vars

\* Statements the scanned texts are built around.  Around the first two the
\* texts probe the edges of the window.
ProbedStatements ==
  { <<"I","N","S","E","R","T"," ","I","N","T","O"," ","b","u","d","g","e","t","s"," ","(">>,
    <<"D","e","l","e","t","e"," "," ","F","r","o","m","\t","p","o","l","i","c","i","e","s">> }
OtherStatements ==
  { <<"u","p","d","a","t","e"," ","u","s","e","r","s","_","a","r","c","h","i","v","e">>,
    <<"i","n","s","e","r","t"," ","i","n","t","o"," ","b","u","d","g","e","t","s","2">>,
    <<"x","u","p","d","a","t","e"," ","u","s","e","r","s">>,
    <<"u","p","d","a","t","e","u","s","e","r","s">>,
    <<"u","p","d","a","t","e"," ","a","g","e","n","t","_","t","o","k","e","n","s">> }

\* What may stand at the start and at the end of a scanned text.
Before == {<<>>, <<"e","v","e","n","t">>, <<"R","E","C","E","I","P","T">>}
After == {<<>>, <<"e","m","i","t","E","v","e","n","t">>, <<"A","p","p","e","n","d">>}

\* Filler lengths that put `token` next to the statement, or Slack characters
\* either side of the place where it leaves the window.
Gaps(stmt, token) ==
  IF token = <<>> \/ stmt \notin ProbedStatements THEN {0}
  ELSE {0} \cup ((Window - Len(token) - Slack)..(Window - Len(token) + Slack))

ScanTexts ==
  UNION {UNION {{pre \o Pad(a) \o stmt \o Pad(b) \o post : a \in Gaps(stmt, pre), b \in Gaps(stmt, post)}
                  : pre \in Before, post \in After}
           : stmt \in ProbedStatements \cup OtherStatements}

\* scan_for_ghost_state applied to every scanned text, in a run whose database
\* checks all passed.
InitScanner ==
  /\ pc = "scan_for_ghost_state"
  /\ out = <<Banner,
             Line("[OK]", "appears DB-immutable", "events", "", <<>>),
             Line("[OK]", "appears DB-immutable", "receipts", "", <<>>),
             Line("[OK]", "blocked as expected", "events", "UPDATE", <<>>),
             Line("[OK]", "blocked as expected", "events", "DELETE", <<>>),
             Line("[OK]", "blocked as expected", "receipts", "UPDATE", <<>>),
             Line("[OK]", "blocked as expected", "receipts", "DELETE", <<>>)>>
  /\ exitCode = -1
  /\ fs = [d \in {"migrations", "db/migrations", "src/db/migrations"} |->
             [exists |-> d = "migrations", files |-> IF d = "migrations" THEN {SqlFile(1)} ELSE {}]]
  /\ sql_files = find_sql_migrations(fs)
  /\ triggers = [t \in {"events", "receipts"} |-> GoodTriggers]
  /\ rows = [users |-> {<<"user_guardian", 1>>}, agents |-> {<<"agent_guardian", 1>>},
             events |-> {<<"evt_guardian", 1>>}, receipts |-> {<<"rcpt_guardian", 1>>}]
  /\ ids = [now |-> 1, seeded |-> <<"user_id", "agent_id", "event_id", "receipt_id">>]
  /\ attempts = <<[table |-> "events", op |-> "UPDATE", outcome |-> "trigger_abort"],
                  [table |-> "events", op |-> "DELETE", outcome |-> "trigger_abort"],
                  [table |-> "receipts", op |-> "UPDATE", outcome |-> "trigger_abort"],
                  [table |-> "receipts", op |-> "DELETE", outcome |-> "trigger_abort"]>>
  /\ \E text \in ScanTexts : kernelFiles = [NoKernel EXCEPT !["kernel.ts"] = text]
  /\ kernel_path = "kernel.ts"
  /\ matches = <<>>
  /\ hits = <<>>

NextScanner == scan_for_ghost_state

SpecScanner == InitScanner /\ [][NextScanner]_vars

\* ------------------------------------------------------------------ claims

\* The .sql files of candidate directory d, as the claims speak of them.
SqlFilesOf(d) == IF fs[d].exists THEN {f \in fs[d].files : f.ext = "sql"} ELSE {}
Priority(d) == CHOOSE k \in DOMAIN Candidates : Candidates[k] = d
NoCandidateYields == \A k \in DOMAIN Candidates : SqlFilesOf(Candidates[k]) = {}
FindReturned == pc = "apply_migrations"
FindFailed == pc = "Failed" /\ out[Len(out)].check = "find_sql_migrations"
Returned == {sql_files[i] : i \in DOMAIN sql_files}
\* The returned list is in candidate priority order, and by file name within a directory.
ReturnedInOrder ==
  \A i, j \in DOMAIN sql_files :
    i < j => \/ Priority(sql_files[i].dir) < Priority(sql_files[j].dir)
             \/ /\ sql_files[i].dir = sql_files[j].dir
                /\ sql_files[i].file.base < sql_files[j].file.base

\* C2 as stated: find_sql_migrations returns exactly the sorted files of the
\* first candidate directory that contains any, nothing of a lower-priority
\* directory merged in, and fails iff no candidate yields a file.
C2_FirstDirectoryOnly ==
  (pc # "find_sql_migrations") =>
    /\ FindFailed <=> NoCandidateYields
    /\ FindReturned =>
         LET first == CHOOSE k \in DOMAIN Candidates :
                        /\ SqlFilesOf(Candidates[k]) # {}
                        /\ \A l \in 1..(k - 1) : SqlFilesOf(Candidates[l]) = {}
         IN /\ Returned = {[dir |-> Candidates[first], file |-> f] : f \in SqlFilesOf(Candidates[first])}
            /\ ReturnedInOrder

\* C2 amended: find_sql_migrations returns the .sql files of every existing
\* candidate directory, concatenated in candidate priority order and sorted
\* within each directory, and fails iff no candidate yields a file.
C2_ConcatenatesEveryDirectory ==
  (pc # "find_sql_migrations") =>
    /\ FindFailed <=> NoCandidateYields
    /\ FindReturned <=> ~NoCandidateYields
    /\ FindReturned =>
         /\ Returned = UNION {{[dir |-> Candidates[k], file |-> f] : f \in SqlFilesOf(Candidates[k])}
                                : k \in DOMAIN Candidates}
         /\ ReturnedInOrder

\* Two candidate directories hold .sql files and the call returned.
C2_Witness ==
  /\ FindReturned
  /\ SqlFilesOf("migrations") # {}
  /\ Cardinality(SqlFilesOf("src/db/migrations")) >= 2

\* Marker m occurs, letters compared without case, in the text of one trigger of
\* the table.
MarkerIn(table, m) ==
  \E k \in DOMAIN triggers[table] :
    /\ triggers[table][k] # NullSql
    /\ \E i \in 1..Len(triggers[table][k]) :
         /\ i + Len(m) - 1 <= Len(triggers[table][k])
         /\ \A j \in 1..Len(m) : ToLower(triggers[table][k][i + j - 1]) = m[j]
AllMarkers(table) ==
  /\ MarkerIn(table, kw_update)
  /\ MarkerIn(table, kw_delete)
  /\ MarkerIn(table, kw_raise) \/ MarkerIn(table, kw_abort)
\* The verifier's verdict on a table, read off what it printed.
VerifierPassed(table) ==
  \E i \in DOMAIN out : out[i].prefix = "[OK]" /\ out[i].check = "appears DB-immutable" /\ out[i].table = table
VerifierFailed(table) ==
  /\ pc = "Failed"
  /\ out[Len(out)].prefix = "[FAIL]" /\ out[Len(out)].check = "is not DB-immutable"
  /\ out[Len(out)].table = table

\* C5: require_immutable_table passes for a protected table iff its triggers'
\* lower-cased text holds an update marker, a delete marker and an abort marker
\* ('raise' or 'abort'); with any category missing (no trigger at all included)
\* it fails with a diagnostic naming that table.
C5_VerifierIffAllMarkers ==
  /\ (pc \notin {"verify_events"}) =>
       /\ VerifierPassed("events") <=> AllMarkers("events")
       /\ VerifierFailed("events") <=> ~AllMarkers("events")
  /\ (pc \notin {"verify_events", "verify_receipts"} /\ AllMarkers("events")) =>
       /\ VerifierPassed("receipts") <=> AllMarkers("receipts")
       /\ VerifierFailed("receipts") <=> ~AllMarkers("receipts")

\* The verifier passed a table whose markers are spread over two triggers and
\* written in upper case.
C5_Witness ==
  /\ pc = "seed_actor"
  /\ Len(triggers["receipts"]) = 2
  /\ \E k \in DOMAIN triggers["receipts"] :
       Contains(triggers["receipts"][k], <<"U","P","D","A","T","E">>)

\* ---- the run as the claims speak of it

\* The statements of main in the order it runs them, and the stage of each.
Statements == <<"find_sql_migrations", "apply_migrations", "verify_events", "verify_receipts",
                "seed_actor", "insert_event", "insert_receipt",
                "prove_events_update", "prove_events_delete",
                "prove_receipts_update", "prove_receipts_delete",
                "scan_for_ghost_state", "final_print", "Passed">>
Index(p) == CHOOSE k \in DOMAIN Statements : Statements[k] = p
StageOf(p) ==
  CASE p \in {"find_sql_migrations", "apply_migrations"} -> "Load"
    [] p \in {"verify_events", "verify_receipts"} -> "Verify"
    [] p \in {"seed_actor", "insert_event", "insert_receipt"} -> "Seed"
    [] p \in {"prove_events_update", "prove_events_delete",
              "prove_receipts_update", "prove_receipts_delete"} -> "Prove"
    [] p = "scan_for_ghost_state" -> "Scan"
    [] p \in {"final_print", "Passed"} -> "Passed"
    [] OTHER -> "Failed"
Stages == <<"Load", "Verify", "Seed", "Prove", "Scan", "Passed">>
Rank(stage) == CHOOSE k \in DOMAIN Stages : Stages[k] = stage
\* The run has got beyond `stage` without failing.
Beyond(stage) == pc # "Failed" /\ Rank(StageOf(pc)) > Rank(stage)

Last == out[Len(out)]
Printed(prefix, check, table, op) ==
  \E i \in DOMAIN out :
    out[i].prefix = prefix /\ out[i].check = check /\ out[i].table = table /\ out[i].op = op
OkLines == {i \in DOMAIN out : out[i].prefix = "[OK]"}
FailLines == {i \in DOMAIN out : out[i].prefix = "[FAIL]"}
VerifierRejected(table) == Printed("[FAIL]", "is not DB-immutable", table, "")
SeedComplete == ids.seeded = <<"user_id", "agent_id", "event_id", "receipt_id">>
WriteAttempts == <<[table |-> "events", op |-> "UPDATE"], [table |-> "events", op |-> "DELETE"],
                   [table |-> "receipts", op |-> "UPDATE"], [table |-> "receipts", op |-> "DELETE"]>>
DatabaseErrors == {"trigger_abort", "foreign_key", "operational"}
ScanLinePrinted == \E i \in DOMAIN out : out[i].check = "ghost-state"

\* The stages completed so far are those before the one the run is in, and
\* each left its result behind.
StagesInOrder ==
  /\ Beyond("Load") => sql_files # <<>>
  /\ Beyond("Verify") => VerifierPassed("events") /\ VerifierPassed("receipts")
  /\ Beyond("Seed") => SeedComplete
  /\ Beyond("Prove") => Len(attempts) = 4 /\ \A k \in DOMAIN attempts : attempts[k].outcome # "ok"
  /\ pc = "Passed" => ScanLinePrinted /\ exitCode = 0
  /\ ids.seeded # <<>> => VerifierPassed("events") /\ VerifierPassed("receipts")
  /\ attempts # <<>> => SeedComplete
  /\ ScanLinePrinted => Len(attempts) = 4
  /\ \A t \in {"events", "receipts"} :
       VerifierRejected(t) => pc = "Failed" /\ ids.seeded = <<>> /\ rows = NoRows /\ attempts = <<>>

\* C1: the stages run in the order Load, Verify, Seed, Prove, Scan, each only
\* after the earlier ones completed without failure, never again and never
\* backwards; a failure leads directly to the terminal Failed state, Passed is
\* reached only after Scan, and when the Verifier fails no row has been seeded
\* and no forbidden write attempted.
C1_StrictPipeline ==
  /\ []StagesInOrder
  /\ [][/\ pc \notin {"Passed", "Failed"}
        /\ \/ pc' = "Failed" /\ exitCode' > 0
           \/ /\ pc' # "Failed"
              /\ Index(pc') = Index(pc) + 1
              /\ Rank(StageOf(pc')) \in {Rank(StageOf(pc)), Rank(StageOf(pc)) + 1}]_vars

\* The regression case: the Verifier passed events and rejected receipts.
C1_Witness ==
  /\ pc = "Failed"
  /\ VerifierPassed("events")
  /\ VerifierFailed("receipts")
  /\ triggers["receipts"] = UpdateTriggerOnly

\* The attempt on (table, op) was reported as blocked, or as allowed.
ReportedBlocked(a) == Printed("[OK]", "blocked as expected", a.table, a.op)
ReportedAllowed(a) == Printed("[FAIL]", "was allowed", a.table, a.op)

\* C3 as stated: only a rejection by the append-only enforcement counts as a
\* pass; an attempt that succeeds, or that fails for another reason (a
\* foreign-key error, an operational error), makes the Prover fail.
C3_OnlyEnforcementIsBlocked ==
  \A k \in DOMAIN attempts :
    /\ ReportedBlocked(attempts[k]) <=> attempts[k].outcome = "trigger_abort"
    /\ attempts[k].outcome # "trigger_abort" => pc = "Failed" /\ ReportedAllowed(attempts[k])

\* C3 amended: any database error raised by a write attempt, the append-only
\* trigger's or another (a foreign-key error, an operational error), is reported
\* as blocked and the run goes on; the Prover fails only when the statement
\* executes without error.
C3_AnyDatabaseErrorIsBlocked ==
  \A k \in DOMAIN attempts :
    /\ ReportedBlocked(attempts[k]) <=> attempts[k].outcome \in DatabaseErrors
    /\ ReportedAllowed(attempts[k]) <=> attempts[k].outcome = "ok"
    /\ attempts[k].outcome = "ok" => pc = "Failed" /\ k = Len(attempts)
    /\ (attempts[k].outcome \in DatabaseErrors /\ k = Len(attempts) /\ pc = "Failed") =>
         Last.check # "was allowed"

\* Deleting the seeded event failed on the receipt's foreign key, and the run
\* reported it blocked and went on to the receipts table.
C3_Witness ==
  /\ pc = "prove_receipts_update"
  /\ attempts[2] = [table |-> "events", op |-> "DELETE", outcome |-> "foreign_key"]
  /\ ReportedBlocked(attempts[2])

\* C4: the Prover attempts the update to self and then the delete by key, on
\* events and then on receipts; an attempt that executes without a database
\* error fails the run with a diagnostic naming the table and the operation and
\* nothing later runs; a table passes only when both its attempts raised a
\* database error.
C4_ProverFailsOnSuccess ==
  /\ Len(attempts) <= 4
  /\ \A k \in DOMAIN attempts :
       /\ [table |-> attempts[k].table, op |-> attempts[k].op] = WriteAttempts[k]
       /\ attempts[k].outcome = "ok" =>
            /\ pc = "Failed" /\ exitCode > 0 /\ k = Len(attempts)
            /\ Last = Line("[FAIL]", "was allowed", attempts[k].table, attempts[k].op, <<>>)
            /\ ~ScanLinePrinted /\ matches = <<>> /\ hits = <<>>
  /\ \A k \in {2, 4} :
       (Printed("[OK]", "blocked as expected", WriteAttempts[k].table, "UPDATE")
          /\ Printed("[OK]", "blocked as expected", WriteAttempts[k].table, "DELETE"))
       <=> (Len(attempts) >= k /\ attempts[k - 1].outcome \in DatabaseErrors
                                /\ attempts[k].outcome \in DatabaseErrors)
  /\ Beyond("Prove") => Len(attempts) = 4

\* The fourth attempt, the delete on receipts, was allowed.
C4_Witness ==
  /\ pc = "Failed"
  /\ Len(attempts) = 4
  /\ attempts[4] = [table |-> "receipts", op |-> "DELETE", outcome |-> "ok"]

ScanTargetExists == \E k \in DOMAIN KernelCandidates : kernelFiles[KernelCandidates[k]] # NoFile

\* C8 as stated: a run in which every check passes exits with code 0 having
\* printed exactly five "[OK]" lines.
C8_FiveOkLines ==
  (pc = "Passed" /\ ScanTargetExists) => exitCode = 0 /\ Cardinality(OkLines) = 5

\* C8 amended: a run in which every check passes exits with code 0 having
\* printed exactly eight "[OK]" lines: two from the Verifier, four from the
\* Prover (UPDATE and DELETE on each of events and receipts), one from the
\* Scanner and the final "Guardian checks passed".
C8_EightOkLines ==
  (pc = "Passed" /\ ScanTargetExists) =>
    /\ exitCode = 0
    /\ Cardinality(OkLines) = 8
    /\ Cardinality({i \in OkLines : out[i].check = "appears DB-immutable"}) = 2
    /\ Cardinality({i \in OkLines : out[i].check = "blocked as expected"}) = 4
    /\ Cardinality({i \in OkLines : out[i].check = "ghost-state"}) = 1
    /\ Cardinality({i \in OkLines : out[i].check = "guardian"}) = 1
    /\ Last.check = "guardian"
    /\ FailLines = {}

\* Correct triggers rejected all four writes, the kernel source was scanned
\* and the run passed.
C8_Witness ==
  /\ pc = "Passed"
  /\ kernelFiles["kernel.ts"] = LoggedKernel
  /\ \A k \in DOMAIN attempts : attempts[k].outcome = "trigger_abort"
  /\ triggers = [t \in {"events", "receipts"} |-> GoodTriggers]

\* C9 as stated: every run that ends in failure, in whichever stage, has
\* printed a "[FAIL]" diagnostic before it terminates with a non-zero code.
C9_EveryFailurePrintsFail ==
  pc = "Failed" => exitCode > 0 /\ FailLines # {}

\* The diagnostic a failed run ends with names the failing check and its subject.
FailureDiagnosed ==
  \/ /\ Last.check = "find_sql_migrations" /\ Last.prefix = ""
     /\ sql_files = <<>> /\ FailLines = {}
  \/ /\ Last.check = "apply_migrations" /\ Last.prefix = ""
     /\ \E k \in DOMAIN sql_files : Last.detail = sql_files[k]
     /\ FailLines = {}
  \/ /\ Last.check \in {"seed_actor", "insert_event", "insert_receipt"} /\ Last.prefix = "Traceback"
     /\ ~SeedComplete /\ FailLines = {}
  \/ /\ Last = Line("[FAIL]", "is not DB-immutable", Last.table, "", <<>>)
     /\ Last.table \in {"events", "receipts"} /\ ~AllMarkers(Last.table)
     /\ FailLines = {Len(out)}
  \/ /\ Last = Line("[FAIL]", "was allowed", attempts[Len(attempts)].table, attempts[Len(attempts)].op, <<>>)
     /\ attempts[Len(attempts)].outcome = "ok"
     /\ FailLines = {Len(out)}
  \/ /\ Last.check = "ghost-state" /\ Last.prefix = ""
     /\ hits # <<>>
     /\ \E i \in DOMAIN out :
          /\ FailLines = {i}
          /\ out[i].check = "ghost-state"
          /\ Len(out) = i + Min(Len(hits), MaxListed) + 1
          /\ \A k \in 1..Min(Len(hits), MaxListed) : out[i + k].detail = hits[k]

\* C9 amended: every run that ends in failure terminates with a non-zero exit
\* code after printing a diagnostic that identifies the failing check and its
\* subject, and no later check runs; the diagnostic carries the "[FAIL]" prefix
\* when the Verifier, the Prover or the Scanner fails, and none when migration
\* discovery, migration application (an unprefixed message) or the Seeder (the
\* uncaught exception's traceback) fails.
C9_FailureDiagnostics ==
  /\ [](pc = "Failed" => exitCode > 0 /\ FailureDiagnosed)
  /\ [](FailLines # {} => pc = "Failed")
  /\ [][pc # "Failed"]_vars

\* A migration failed to apply: the run ended on an unprefixed message naming
\* the file.
C9_Witness ==
  /\ pc = "Failed"
  /\ Last.check = "apply_migrations"
  /\ Last.detail = [dir |-> "src/db/migrations", file |-> SqlFile(1)]

\* The first existing candidate of the scan target, in priority order.
FirstKernel ==
  KernelCandidates[CHOOSE k \in DOMAIN KernelCandidates :
                     /\ kernelFiles[KernelCandidates[k]] # NoFile
                     /\ \A l \in 1..(k - 1) : kernelFiles[KernelCandidates[l]] = NoFile]
ScanDone == pc \in {"final_print", "Passed"} \/ (pc = "Failed" /\ Last.check = "ghost-state")

\* C10: with the scan target at none of the candidate locations the Scan stage
\* warns, records no finding and does not fail, so a run whose database checks
\* passed ends in Passed with exit code 0; otherwise the first existing
\* candidate in priority order is the one file scanned.
C10_MissingTargetSkipsScan ==
  /\ (ScanDone /\ ~ScanTargetExists) =>
       /\ pc # "Failed"
       /\ Cardinality({i \in DOMAIN out : out[i].check = "ghost-state"}) = 1
       /\ Printed("[WARN]", "ghost-state", "", "")
       /\ matches = <<>> /\ hits = <<>>
       /\ pc = "final_print" => ENABLED MainPassed
       /\ pc = "Passed" => exitCode = 0
  /\ (ScanDone /\ ScanTargetExists) =>
       /\ kernel_path = FirstKernel
       /\ ~Printed("[WARN]", "ghost-state", "", "")
       /\ (pc = "Failed") <=> (kernelFiles[FirstKernel] = GhostKernel)
       /\ Printed("[OK]", "ghost-state", "", "") <=> (kernelFiles[FirstKernel] = LoggedKernel)

\* No candidate exists and the run passed after the warning.
C10_Witness ==
  /\ pc = "Passed"
  /\ ~ScanTargetExists
  /\ exitCode = 0
  /\ Printed("[WARN]", "ghost-state", "", "")

\* ---- the scanner as the claims speak of it

Scanned == kernelFiles[kernel_path]
MatchSet == {matches[k] : k \in DOMAIN matches}
HitSet == {hits[k] : k \in DOMAIN hits}
FindingOf(m) == [table |-> m.table, op |-> SubSeq(Scanned, m.start + 1, m.end), pos |-> m.start]

\* Token tok stands at offset q (counted from 0) of the scanned text, letters
\* compared without case.
TokenAt(tok, q) ==
  /\ q + Len(tok) <= Len(Scanned)
  /\ \A j \in 1..Len(tok) : ToLower(Scanned[q + j]) = tok[j]
\* An audit token lies wholly between offset lo (included) and offset hi (excluded).
TokenWithin(lo, hi) ==
  \E t \in DOMAIN AuditTokens :
    \E q \in lo..(hi - Len(AuditTokens[t])) : q >= 0 /\ TokenAt(AuditTokens[t], q)
\* The window of a match: 300 characters before its start to 300 after its end,
\* clipped to the text.
TokenInWindow(m) ==
  TokenWithin(IF m.start - Window < 0 THEN 0 ELSE m.start - Window,
              IF m.end + Window > Len(Scanned) THEN Len(Scanned) ELSE m.end + Window)

InsertIntoBudgets ==
  <<"I","N","S","E","R","T"," ","I","N","T","O"," ","b","u","d","g","e","t","s">>
\* `INSERT INTO budgets (` stands at offset p of the scanned text.
InsertAt(p) ==
  /\ p + Len(InsertIntoBudgets) + 2 <= Len(Scanned)
  /\ SubSeq(Scanned, p + 1, p + Len(InsertIntoBudgets) + 2) = InsertIntoBudgets \o <<" ", "(">>
InsertOffsets == {p \in 0..(Len(Scanned) - 1) : Scanned[p + 1] = "I" /\ InsertAt(p)}

\* C6: for every match of a statement on a sensitive table the Scanner records
\* the finding (table, matched text, start offset) iff the window from 300
\* characters before the match start to 300 after the match end, clipped to the
\* text, holds none of 'event', 'receipt', 'append' in any case of letters; so
\* `INSERT INTO budgets (` with no token within 300 characters yields exactly
\* one finding for budgets, and none with `emitEvent` within 300 after it.
C6_FindingIffNoTokenInWindow ==
  ScanDone =>
    /\ \A m \in MatchSet : (FindingOf(m) \in HitSet) <=> ~TokenInWindow(m)
    /\ HitSet \subseteq {FindingOf(m) : m \in MatchSet}
    /\ Len(hits) = Cardinality(HitSet)
    /\ (pc = "Failed") <=> (hits # <<>>)
    /\ \A p \in InsertOffsets :
         LET end == p + Len(InsertIntoBudgets)
             budgets == {h \in HitSet : h.table = suspicious_tables[1]}
         IN /\ ~TokenWithin(p - Window, end + Window) =>
                 budgets = {[table |-> suspicious_tables[1], op |-> InsertIntoBudgets, pos |-> p]}
            /\ (\E q \in end..(end + Window - 9) : TokenAt(<<"e","m","i","t","e","v","e","n","t">>, q)) =>
                 budgets = {}

\* `INSERT INTO budgets (` with "event" ending one character before the window
\* opens and "emitEvent" beginning inside it but ending after it: one finding.
C6_Witness ==
  /\ pc = "Failed"
  /\ Len(hits) = 1
  /\ hits[1] = [table |-> suspicious_tables[1], op |-> InsertIntoBudgets, pos |-> Window + 1]
  /\ TokenAt(AuditTokens[1], 0)
  /\ \E q \in (hits[1].pos + Len(InsertIntoBudgets) + 2)..Len(Scanned) : TokenAt(AuditTokens[1], q)

\* The characters of s with every run of white space replaced by one blank.
RECURSIVE Squeeze(_)
Squeeze(s) ==
  IF s = <<>> THEN <<>>
  ELSE IF IsSpace(s[1])
       THEN IF Len(s) > 1 /\ IsSpace(s[2]) THEN Squeeze(Tail(s)) ELSE <<" ">> \o Squeeze(Tail(s))
       ELSE <<ToLower(s[1])>> \o Squeeze(Tail(s))
\* The three statements on `table`, in lower case and single-spaced.
Phrases(table) ==
  { kw_insert \o <<" ">> \o kw_into \o <<" ">> \o table,
    kw_update \o <<" ">> \o table,
    kw_delete \o <<" ">> \o kw_from \o <<" ">> \o table }
\* Offsets start (included) to end (excluded) of the scanned text spell, whatever
\* the case of the letters and the amount of white space, a statement on `table`.
Spells(table, start, end) == Squeeze(SubSeq(Scanned, start + 1, end)) \in Phrases(table)
LongestStatement ==
  CHOOSE n \in {Len(x) : x \in ProbedStatements \cup OtherStatements} :
    \A x \in ProbedStatements \cup OtherStatements : Len(x) <= n
StatementSpans ==
  {[table |-> suspicious_tables[t], start |-> s, end |-> e] :
     t \in DOMAIN suspicious_tables,
     s \in {i \in 0..(Len(Scanned) - 1) : ToLower(Scanned[i + 1]) \in {"i", "u", "d"}},
     e \in 1..Len(Scanned)}
WordBoundaryBefore(off) == off = 0 \/ ~IsWordChar(Scanned[off])
WordBoundaryAfter(off) == off = Len(Scanned) \/ ~IsWordChar(Scanned[off + 1])

\* C7 as stated: the statement matching is word-boundary matched, so the
\* keyword and the table name of every match are whole words.
C7_WordBoundaryMatched ==
  ScanDone => \A m \in MatchSet : WordBoundaryBefore(m.start) /\ WordBoundaryAfter(m.end)

\* C7 amended: the statement matching is case-insensitive and not
\* word-boundary matched: a statement is matched for sensitive table T wherever
\* the keyword(s), white space and T stand in the text, whatever precedes the
\* keyword or follows the table name, so `update users_archive` and
\* `xupdate users` are matched for users and `insert into budgets2` for budgets.
C7_MatchedAnywhere ==
  ScanDone =>
    /\ MatchSet = {x \in StatementSpans :
                     /\ x.start < x.end /\ x.end - x.start <= LongestStatement
                     /\ ~IsSpace(Scanned[x.end])
                     /\ Spells(x.table, x.start, x.end)}
    /\ Len(matches) = Cardinality(MatchSet)

\* `update users_archive`, with no audit token near, yields a finding for users.
C7_Witness ==
  /\ pc = "Failed"
  /\ Scanned = <<"u","p","d","a","t","e"," ","u","s","e","r","s","_","a","r","c","h","i","v","e">>
  /\ hits = <<[table |-> suspicious_tables[4], op |-> <<"u","p","d","a","t","e"," ","u","s","e","r","s">>, pos |-> 0]>>

====
